---- MODULE Spec2Model ----
(***************************************************************************)
(* Model of sprocketnes/mapper.rs: the cartridge mappers Nrom (mapper 0),  *)
(* SxRom (mapper 1, MMC1) and TxRom (mapper 4, MMC3) behind the Mapper     *)
(* trait, and the factory Mapper::with_mapper.                             *)
(*                                                                         *)
(* u8 arithmetic wraps modulo 256.  Vector indexing is bounds-checked: an  *)
(* index at or beyond the vector's length fails the task, which the model  *)
(* records in `fault`; a failed task performs no further operation.        *)
(***************************************************************************)
EXTENDS Integers, Sequences, FiniteSets, TLC

\* ------------------------------------------------------------------ bounds

\* Number of mapper operations performed inside the callback of with_mapper,
\* for each chip.
MaxNromOps == 3
MaxSxOps == 6
MaxTxOps == 5

\* Number of operations the callback performs on SxRom in SpecSxBanks: two
\* five-write register commits and a load.
MaxSxBankOps == 11

\* ------------------------------------------------------------------ inputs

\* rom.header.mapper(): the three supported ids and two unsupported ones.
MapperIds == {0, 1, 2, 4, 99}

\* rom.header.prg_rom_size, the number of 16 KB PRG units (a u8), of the
\* images tried with each mapper id: 16 KB and 32 KB for Nrom; for SxRom
\* 32 KB and 512 KB (every 5-bit bank number exists); for TxRom 16 KB and
\* 129 units, where the u8 product prg_rom_size * 2 wraps.
PrgRomSizes(id) ==
    CASE id = 0 -> {1, 2}
      [] id = 1 -> {2, 32}
      [] id = 4 -> {1, 129}
      [] OTHER  -> {1}

\* Number of 8 KB CHR units in the ROM image.
ChrRomSizes == {1}

\* The ROM images handed to with_mapper.
Roms ==
    UNION { [mapper : {id}, prg_rom_size : PrgRomSizes(id),
             chr_rom_size : ChrRomSizes] : id \in MapperIds }

\* CPU-side addresses passed to Nrom: below the ROM window, and the edges of
\* its two 16 KB halves.
NromAddrs == { 0, 32767, 32768, 49151, 49152, 65535 }
    \* $0000 $7FFF $8000 $BFFF $C000 $FFFF

\* CPU-side addresses passed to SxRom: below the register window, and both
\* edges of each of the four register ranges.
SxAddrs == { 32767, 32768, 40959, 40960, 49151, 49152, 57343, 57344, 65535 }
    \* $7FFF $8000 $9FFF $A000 $BFFF $C000 $DFFF $E000 $FFFF

\* CPU-side addresses passed to TxRom: below PRG-RAM, both edges of PRG-RAM,
\* even and odd addresses of $8000-$9FFF, and the edges of the other windows.
TxAddrs == { 24575, 24576, 32767, 32768, 32769, 40958, 40959,
             40960, 49151, 49152, 57343, 57344, 65535 }
    \* $5FFF $6000 $7FFF $8000 $8001 $9FFE $9FFF $A000 $BFFF $C000 $DFFF
    \* $E000 $FFFF

\* PPU-side addresses passed to chr_loadb / chr_storeb.
ChrAddrs == { 0, 8191, 8192, 65535 }   \* $0000 $1FFF $2000 $FFFF

\* Byte values written to Nrom (ignored by it).
NromVals == { 0, 255 }

\* Byte values written to SxRom: low bit 0 or 1 with the reset flag clear
\* (126 = $7E has every other bit set), and the reset flag ($80).
SxVals == { 0, 1, 126, 128 }

\* Writes (address, value) made to TxRom.  Bank select ($8000, $9FFE):
\* bank-update-select 0, 1, 2, 5, 6, 7, and with PRG mode bit 6 set $46, $C7
\* and $FF (every bit set).  Bank data ($8001, $9FFF) and PRG-RAM ($6000,
\* $7FFF): 0, 3, $FF.  Elsewhere ($5FFF, $A000 and above): $46 and $FF.
TxSelectVals == { 0, 1, 2, 5, 6, 7, 70, 199, 255 }
TxDataVals == { 0, 3, 255 }
TxOtherVals == { 70, 255 }
TxWrites ==
    ({32768, 40958} \X TxSelectVals)
    \cup ({32769, 40959, 24576, 32767} \X TxDataVals)
    \cup ({24575, 40960, 49151, 49152, 57343, 57344, 65535} \X TxOtherVals)

\* Byte values written to CHR.
ChrVals == { 0, 171 }

\* Cells of an 8 KB RAM that the addresses above reach (addr & 0x1fff on the
\* PRG side, the raw address on the CHR side).
RamCells == { 0, 8191 }

\* SpecSxBanks: SxRom driven only through the control register ($8000) and the
\* PRG bank register ($E000), with low bit 0 or 1 and the reset flag, and read
\* below the ROM window and at the edges of its two 16 KB halves.
SxBankRoms == { r \in Roms : r.mapper = 1 }
SxBankStoreAddrs == { 32768, 57344 }
SxBankVals == { 0, 1, 128 }
SxBankLoadAddrs == { 32767, 32768, 49151, 49152, 65535 }

\* ------------------------------------------------------------- bit helpers

RECURSIVE BitAnd(_, _)
BitAnd(a, b) ==
    IF a = 0 \/ b = 0 THEN 0
    ELSE (IF a % 2 = 1 /\ b % 2 = 1 THEN 1 ELSE 0) + 2 * BitAnd(a \div 2, b \div 2)

RECURSIVE BitOr(_, _)
BitOr(a, b) ==
    IF a = 0 THEN b
    ELSE IF b = 0 THEN a
    ELSE (IF a % 2 = 1 \/ b % 2 = 1 THEN 1 ELSE 0) + 2 * BitOr(a \div 2, b \div 2)

\* x << n and x >> n on a u8.
Shl8(x, n) == (x * (2 ^ n)) % 256
Shr8(x, n) == x \div (2 ^ n)

\* a - b on a u8 (wrapping).
Sub8(a, b) == (a - b + 256) % 256

\* a * b on a u8 (wrapping).
Mul8(a, b) == (a * b) % 256

\* ------------------------------------------------------------------- state

VARIABLES
    rom,            \* the ROM image handed to with_mapper: header fields
    chip,           \* which chip with_mapper built: "none" before / without one
    fault,          \* "none", or the failure that ended the task
    nops,           \* operations the callback has performed so far
    limit,          \* operations the callback performs at most
    \* SxRom
    ctrl, chr_bank_0, chr_bank_1, prg_bank,     \* SxRegs
    accum, write_count,
    sx_prg_ram, chr_ram,
    \* TxRom
    bank_select,                                \* TxRegs
    tx_prg_ram,
    chr_banks_2k, chr_banks_1k, prg_banks,
    \* history (not program state): the MMC1 shift sequence in progress, the
    \* value last stored to each cell of the chip's writable 8 KB RAM (SxRom's
    \* CHR-RAM, TxRom's PRG-RAM; 0 before the first store), and the operation
    \* the callback performed last ("none" before the first)
    seq, stored, op

sx_vars == <<ctrl, chr_bank_0, chr_bank_1, prg_bank, accum, write_count,
             sx_prg_ram, chr_ram>>
tx_vars == <<bank_select, tx_prg_ram, chr_banks_2k, chr_banks_1k, prg_banks>>
vars == <<rom, chip, fault, nops, limit, sx_vars, tx_vars, seq, stored, op>>

\* ---------------------------------------------------------------- ROM image

\* rom.prg.len(): the ROM loader (not part of mapper.rs) reads prg_rom_size
\* units of 16 KB.
PrgLen == rom.prg_rom_size * 16384

\* rom.chr.len(): likewise chr_rom_size units of 8 KB.
ChrLen == rom.chr_rom_size * 8192

\* Contents of the (immutable) PRG and CHR images: a fixed pattern that tells
\* 8 KB banks (any two fewer than 251 banks apart) and neighbouring offsets
\* apart.
PrgByte(off) == (7 * (off \div 8192) + 3 * (off % 8192) + 1) % 251
ChrByte(off) == (3 * off + 1) % 256

\* A bounds-checked vector read: <<byte>>, or <<>> when the index is at or
\* beyond the length (the task fails).
PrgAt(off) == IF off < PrgLen THEN <<PrgByte(off)>> ELSE <<>>
ChrAt(off) == IF off < ChrLen THEN <<ChrByte(off)>> ELSE <<>>

\* An 8 KB RAM (~([u8 * 8192])): the cells the model's addresses reach.
ZeroRam == [c \in RamCells |-> 0]
RamAt(ram, i) == IF i < 8192 THEN <<ram[i]>> ELSE <<>>

\* RamPut that drops the value.
RamPut_Dropped(ram, i, val) == IF i < 8192 THEN <<ram>> ELSE <<>>

\* A bounds-checked vector write ram[i] = val: <<the RAM afterwards>>, or <<>>
\* when the index is at or beyond the length (the task fails).
RamPut(ram, i, val) == IF i < 8192 THEN <<[ram EXCEPT ![i] = val]>> ELSE <<>>

\* The shift-sequence history before any qualifying write.
NoSeq == [bits |-> <<>>, first |-> "none", same |-> TRUE, dest |-> "none"]

\* ---------------------------------------------------------------- factory

\* ChipFor with the `_` arm falling back to Nrom instead of failing.
ChipFor_Fallback(id) ==
    CASE id = 1 -> "SxRom"
      [] id = 4 -> "TxRom"
      [] OTHER  -> "Nrom"

\* The chip with_mapper builds for a mapper id; "none" for the `_` arm.
ChipFor(id) ==
    CASE id = 0 -> "Nrom"
      [] id = 1 -> "SxRom"
      [] id = 4 -> "TxRom"
      [] OTHER  -> "none"

\* The number of operations the callback performs on chip c.
MaxOps(c) ==
    CASE c = "Nrom"  -> MaxNromOps
      [] c = "SxRom" -> MaxSxOps
      [] c = "TxRom" -> MaxTxOps
      [] OTHER       -> 0

\* Before with_mapper: no chip, nothing done.
NotBuilt ==
    /\ chip = "none"
    /\ fault = "none"
    /\ nops = 0
    /\ ctrl = 0 /\ chr_bank_0 = 0 /\ chr_bank_1 = 0 /\ prg_bank = 0
    /\ accum = 0 /\ write_count = 0
    /\ sx_prg_ram = <<>> /\ chr_ram = <<>>
    /\ bank_select = 0
    /\ tx_prg_ram = <<>>
    /\ chr_banks_2k = <<>> /\ chr_banks_1k = <<>> /\ prg_banks = <<>>
    /\ seq = NoSeq
    /\ stored = ZeroRam
    /\ op = "none"

Init ==
    /\ rom \in Roms
    /\ limit = MaxOps(ChipFor(rom.mapper))
    /\ NotBuilt

\* SxRom::new
SxNew ==
    [ctrl |-> Shl8(3, 2), chr_bank_0 |-> 0, chr_bank_1 |-> 0, prg_bank |-> 0,
     accum |-> 0, write_count |-> 0, prg_ram |-> ZeroRam, chr_ram |-> ZeroRam]

\* TxRom::new
TxNew ==
    [bank_select |-> 0, prg_ram |-> ZeroRam,
     chr_banks_2k |-> [i \in 0..1 |-> 0], chr_banks_1k |-> [i \in 0..3 |-> 0],
     prg_banks |-> [i \in 0..1 |-> 0]]

\* Mapper::with_mapper, up to the call of f (the operations below run inside
\* f), or up to fail!("unsupported mapper").
WithMapper ==
    /\ chip = "none" /\ fault = "none"
    /\ LET c == ChipFor(rom.mapper) IN
        /\ chip' = c
        /\ fault' = IF c = "none" THEN "unsupported mapper" ELSE "none"
        /\ IF c = "SxRom"
           THEN /\ ctrl' = SxNew.ctrl /\ chr_bank_0' = SxNew.chr_bank_0
                /\ chr_bank_1' = SxNew.chr_bank_1 /\ prg_bank' = SxNew.prg_bank
                /\ accum' = SxNew.accum /\ write_count' = SxNew.write_count
                /\ sx_prg_ram' = SxNew.prg_ram /\ chr_ram' = SxNew.chr_ram
           ELSE UNCHANGED sx_vars
        /\ IF c = "TxRom"
           THEN /\ bank_select' = TxNew.bank_select
                /\ tx_prg_ram' = TxNew.prg_ram
                /\ chr_banks_2k' = TxNew.chr_banks_2k
                /\ chr_banks_1k' = TxNew.chr_banks_1k
                /\ prg_banks' = TxNew.prg_banks
           ELSE UNCHANGED tx_vars
    /\ UNCHANGED <<rom, limit, nops, seq, stored, op>>

\* An operation of chip c can run: the callback holds c, the task is alive
\* and the callback has operations left.
Running(c) == chip = c /\ fault = "none" /\ nops < limit

\* The callback has performed one more operation.
Did(name) == nops' = nops + 1 /\ op' = name

\* The outcome of a load whose vector read gave r: it returns r[1], or the
\* read failed (r = <<>>) and with it the task.
Loaded(r, name) ==
    /\ fault' = IF r = <<>> THEN name \o ": index out of bounds" ELSE fault
    /\ Did(name)

\* ------------------------------------------------------------ Nrom (mapper 0)

\* NromPrgRead without the 16 KB mirror.
NromPrgRead_NoMirror(addr) ==
    IF addr < 32768 THEN <<0>> ELSE PrgAt(BitAnd(addr, 32767))

\* Nrom::prg_loadb: <<the byte returned>>, or <<>> when the read fails.
NromPrgRead(addr) ==
    IF addr < 32768 THEN <<0>>
    ELSE IF PrgLen > 16384 THEN PrgAt(BitAnd(addr, 32767))      \* 0x7fff
    ELSE PrgAt(BitAnd(addr, 16383))                              \* 0x3fff

NromPrgLoadb(addr) ==
    /\ Running("Nrom")
    /\ Loaded(NromPrgRead(addr), "prg_loadb")
    /\ UNCHANGED <<rom, limit, chip, sx_vars, tx_vars, seq, stored>>

NromPrgStoreb(addr, val) ==
    /\ Running("Nrom")
    /\ Did("prg_storeb")
    /\ UNCHANGED <<rom, limit, chip, fault, sx_vars, tx_vars, seq, stored>>

NromChrLoadb(addr) ==
    /\ Running("Nrom")
    /\ Loaded(ChrAt(addr), "chr_loadb")
    /\ UNCHANGED <<rom, limit, chip, sx_vars, tx_vars, seq, stored>>

NromChrStoreb(addr, val) ==
    /\ Running("Nrom")
    /\ Did("chr_storeb")
    /\ UNCHANGED <<rom, limit, chip, fault, sx_vars, tx_vars, seq, stored>>

\* ----------------------------------------------------- SxRom (mapper 1, MMC1)

\* SxCtrl::mirroring
SxMirroring(c) ==
    LET m == BitAnd(c, 3) IN
    CASE m = 0 -> "OneScreenLower"
      [] m = 1 -> "OneScreenUpper"
      [] m = 2 -> "Vertical"
      [] m = 3 -> "Horizontal"
      [] OTHER -> "fail"

\* SxCtrl::prg_rom_mode
SxPrgRomMode(c) ==
    LET m == BitAnd(Shr8(c, 2), 3) IN
    CASE m = 0 \/ m = 1 -> "Switch32K"
      [] m = 2 -> "FixFirstBank"
      [] m = 3 -> "FixLastBank"
      [] OTHER -> "fail"

\* SxCtrl::chr_rom_mode
SxChrRomMode(c) ==
    IF BitAnd(Shr8(c, 4), 1) = 0 THEN "Switch8K" ELSE "SwitchTwo4K"

\* SxPrgBank with Switch32K using prg_bank as it is (bit 0 not cleared).
SxPrgBank_RawSwitch32K(addr) ==
    LET mode == SxPrgRomMode(ctrl) IN
    IF addr < 49152
    THEN CASE mode = "Switch32K"    -> prg_bank
           [] mode = "FixFirstBank" -> 0
           [] mode = "FixLastBank"  -> prg_bank
    ELSE CASE mode = "Switch32K"    -> BitOr(prg_bank, 1)
           [] mode = "FixFirstBank" -> prg_bank
           [] mode = "FixLastBank"  -> Sub8(rom.prg_rom_size, 1)

\* The 16 KB bank SxRom::prg_loadb reads for an address >= $8000.
SxPrgBank(addr) ==
    LET mode == SxPrgRomMode(ctrl) IN
    IF addr < 49152                                              \* 0xc000
    THEN CASE mode = "Switch32K"    -> BitAnd(prg_bank, 254)     \* & 0xfe
           [] mode = "FixFirstBank" -> 0
           [] mode = "FixLastBank"  -> prg_bank
    ELSE CASE mode = "Switch32K"    -> BitOr(BitAnd(prg_bank, 254), 1)
           [] mode = "FixFirstBank" -> prg_bank
           [] mode = "FixLastBank"  -> Sub8(rom.prg_rom_size, 1)

\* (bank as uint * 16384) | ((addr & 0x3fff) as uint)
SxPrgOffset(addr) == BitOr(SxPrgBank(addr) * 16384, BitAnd(addr, 16383))

SxPrgRead(addr) ==
    IF addr < 32768 THEN <<0>> ELSE PrgAt(SxPrgOffset(addr))

\* SxPrgLoadb treating the access as the start of a new shift sequence.
SxPrgLoadb_ClearsShift(addr) ==
    /\ Running("SxRom")
    /\ Loaded(SxPrgRead(addr), "prg_loadb")
    /\ write_count' = 0 /\ accum' = 0
    /\ UNCHANGED <<rom, limit, chip, ctrl, chr_bank_0, chr_bank_1, prg_bank,
                   sx_prg_ram, chr_ram, tx_vars, seq, stored>>

SxPrgLoadb(addr) ==
    /\ Running("SxRom")
    /\ Loaded(SxPrgRead(addr), "prg_loadb")
    /\ UNCHANGED <<rom, limit, chip, sx_vars, tx_vars, seq, stored>>

\* The registers prg_storeb can change, as a record.
SxRegs ==
    [ctrl |-> ctrl, chr_bank_0 |-> chr_bank_0, chr_bank_1 |-> chr_bank_1,
     prg_bank |-> prg_bank, accum |-> accum, write_count |-> write_count]

\* The reset flag of a written value.
SxIsReset(val) == BitAnd(val, 128) # 0                           \* 0x80

\* SxShiftIn without the shift by write_count.
SxShiftIn_NoShift(acc, val, wc) == BitOr(acc, BitAnd(val, 1))

\* SxShiftIn taking the whole value instead of its low bit.
SxShiftIn_WholeValue(acc, val, wc) == BitOr(acc, Shl8(val, wc))

\* self.accum | ((val & 1) << self.write_count)
SxShiftIn(acc, val, wc) == BitOr(acc, Shl8(BitAnd(val, 1), wc))

\* SxTarget with the last address of each range sent to the next register.
SxTarget_Strict(addr) ==
    IF addr < 40959 THEN "ctrl"
    ELSE IF addr < 49151 THEN "chr_bank_0"
    ELSE IF addr < 57343 THEN "chr_bank_1"
    ELSE "prg_bank"

\* The register the 5th write at addr commits to.
SxTarget(addr) ==
    IF addr <= 40959 THEN "ctrl"                                 \* 0x9fff
    ELSE IF addr <= 49151 THEN "chr_bank_0"                      \* 0xbfff
    ELSE IF addr <= 57343 THEN "chr_bank_1"                      \* 0xdfff
    ELSE "prg_bank"

\* SxResetCtrl assigning the fix-last-bank mask instead of or-ing it in.
SxResetCtrl_Assign(c) == Shl8(3, 2)

\* *self.regs.ctrl | (3 << 2)
SxResetCtrl(c) == BitOr(c, Shl8(3, 2))

\* SxAfterStore without `self.write_count = 0` in the commit.
SxAfterStore_NoWrap(addr, val) ==
    IF addr < 32768 THEN SxRegs
    ELSE IF SxIsReset(val)
    THEN [SxRegs EXCEPT !.write_count = 0, !.accum = 0,
                        !.ctrl = SxResetCtrl(ctrl)]
    ELSE LET acc == SxShiftIn(accum, val, write_count)
             wc  == (write_count + 1) % 256
         IN  IF wc = 5
             THEN [SxRegs EXCEPT !.write_count = wc,
                                 ![SxTarget(addr)] = acc,
                                 !.accum = 0]
             ELSE [SxRegs EXCEPT !.accum = acc, !.write_count = wc]

\* SxAfterStore with the reset flag checked before the address.
SxAfterStore_ResetFirst(addr, val) ==
    IF SxIsReset(val)
    THEN [SxRegs EXCEPT !.write_count = 0, !.accum = 0,
                        !.ctrl = SxResetCtrl(ctrl)]
    ELSE IF addr < 32768 THEN SxRegs
    ELSE LET acc == SxShiftIn(accum, val, write_count)
             wc  == (write_count + 1) % 256
         IN  IF wc = 5
             THEN [SxRegs EXCEPT !.write_count = 0,
                                 ![SxTarget(addr)] = acc,
                                 !.accum = 0]
             ELSE [SxRegs EXCEPT !.accum = acc, !.write_count = wc]

\* The registers after SxRom::prg_storeb(addr, val).
SxAfterStore(addr, val) ==
    IF addr < 32768 THEN SxRegs
    ELSE IF SxIsReset(val)
    THEN [SxRegs EXCEPT !.write_count = 0, !.accum = 0,
                        !.ctrl = SxResetCtrl(ctrl)]
    ELSE LET acc == SxShiftIn(accum, val, write_count)
             wc  == (write_count + 1) % 256
         IN  IF wc = 5
             THEN [SxRegs EXCEPT !.write_count = 0,
                                 ![SxTarget(addr)] = acc,
                                 !.accum = 0]
             ELSE [SxRegs EXCEPT !.accum = acc, !.write_count = wc]

\* The history of the shift sequence after a prg_storeb(addr, val): the low
\* bits written since construction, the last reset or the last completed
\* group of five, the register range of the first of them, whether all of
\* them went to that range, and the range of the fifth.
SxRange(addr) ==
    CASE addr < 40960 -> "ctrl"
      [] addr >= 40960 /\ addr < 49152 -> "chr_bank_0"
      [] addr >= 49152 /\ addr < 57344 -> "chr_bank_1"
      [] addr >= 57344 -> "prg_bank"

SeqAfterStore(addr, val) ==
    IF addr < 32768 THEN seq
    ELSE IF val >= 128 THEN NoSeq
    ELSE IF Len(seq.bits) \in {0, 5}
    THEN [bits |-> <<val % 2>>, first |-> SxRange(addr), same |-> TRUE,
          dest |-> "none"]
    ELSE [bits  |-> Append(seq.bits, val % 2),
          first |-> seq.first,
          same  |-> seq.same /\ SxRange(addr) = seq.first,
          dest  |-> IF Len(seq.bits) = 4 THEN SxRange(addr) ELSE "none"]

SxPrgStoreb(addr, val) ==
    /\ Running("SxRom")
    /\ LET r == SxAfterStore(addr, val) IN
        /\ ctrl' = r.ctrl /\ chr_bank_0' = r.chr_bank_0
        /\ chr_bank_1' = r.chr_bank_1 /\ prg_bank' = r.prg_bank
        /\ accum' = r.accum /\ write_count' = r.write_count
    /\ seq' = SeqAfterStore(addr, val)
    /\ Did("prg_storeb")
    /\ UNCHANGED <<rom, limit, chip, fault, sx_prg_ram, chr_ram, tx_vars, stored>>

\* self.chr_ram[addr]
SxChrRead(addr) == RamAt(chr_ram, addr)

SxChrLoadb(addr) ==
    /\ Running("SxRom")
    /\ Loaded(SxChrRead(addr), "chr_loadb")
    /\ UNCHANGED <<rom, limit, chip, sx_vars, tx_vars, seq, stored>>

\* self.chr_ram[addr] = val
SxChrStoreb(addr, val) ==
    /\ Running("SxRom")
    /\ LET w == RamPut(chr_ram, addr, val) IN
        IF w # <<>>
        THEN chr_ram' = w[1] /\ fault' = fault
        ELSE chr_ram' = chr_ram /\ fault' = "chr_storeb: index out of bounds"
    /\ stored' = IF addr < 8192 THEN [stored EXCEPT ![addr] = val] ELSE stored
    /\ Did("chr_storeb")
    /\ UNCHANGED <<rom, limit, chip, ctrl, chr_bank_0, chr_bank_1, prg_bank,
                   accum, write_count, sx_prg_ram, tx_vars, seq>>

\* ----------------------------------------------------- TxRom (mapper 4, MMC3)

\* bank_update_select masking four bits instead of three.
TxBankUpdateSelect_FourBits(b) == BitAnd(b, 15)

\* bank_update_select masking two bits instead of three.
TxBankUpdateSelect_TwoBits(b) == BitAnd(b, 3)

\* TxBankSelect::bank_update_select
TxBankUpdateSelect(b) == BitAnd(b, 7)

\* TxBankSelect::prg_bank_mode
TxPrgBankMode(b) ==
    IF BitAnd(b, 64) = 0 THEN "Swappable8000" ELSE "SwappableC000"   \* 0x40

\* TxRom::prg_bank_count: a u8 product.
TxPrgBankCount == Mul8(rom.prg_rom_size, 2)

\* The 8 KB bank TxRom::prg_loadb reads for an address >= $8000.
TxPrgBank(addr) ==
    LET mode == TxPrgBankMode(bank_select) IN
    IF addr < 40960                                              \* 0xa000
    THEN CASE mode = "Swappable8000" -> prg_banks[0]
           [] mode = "SwappableC000" -> Sub8(TxPrgBankCount, 2)
    ELSE IF addr < 49152                                         \* 0xc000
    THEN prg_banks[1]
    ELSE IF addr < 57344                                         \* 0xe000
    THEN CASE mode = "Swappable8000" -> Sub8(TxPrgBankCount, 2)
           [] mode = "SwappableC000" -> prg_banks[0]
    ELSE Sub8(TxPrgBankCount, 1)

\* (bank as uint * 8192) | (addr as uint & 0x1fff)
TxPrgOffset(addr) == BitOr(TxPrgBank(addr) * 8192, BitAnd(addr, 8191))

TxPrgRead(addr) ==
    IF addr < 24576 THEN <<0>>                                   \* 0x6000
    ELSE IF addr < 32768 THEN RamAt(tx_prg_ram, BitAnd(addr, 8191))
    ELSE PrgAt(TxPrgOffset(addr))

TxPrgLoadb(addr) ==
    /\ Running("TxRom")
    /\ Loaded(TxPrgRead(addr), "prg_loadb")
    /\ UNCHANGED <<rom, limit, chip, sx_vars, tx_vars, seq, stored>>

\* The state prg_storeb can change, as a record; failed: the fail!() arm.
TxRegs ==
    [bank_select |-> bank_select, prg_ram |-> tx_prg_ram,
     chr_banks_2k |-> chr_banks_2k, chr_banks_1k |-> chr_banks_1k,
     prg_banks |-> prg_banks, failed |-> FALSE]

\* The bank-data write: the match on bank_update_select.
TxBankData(sel, val) ==
    CASE sel \in 0..1 -> [TxRegs EXCEPT !.chr_banks_2k[sel] = val]
      [] sel \in 2..5 -> [TxRegs EXCEPT !.chr_banks_1k[sel - 2] = val]
      [] sel \in 6..7 -> [TxRegs EXCEPT !.prg_banks[sel - 6] = val]
      [] OTHER        -> [TxRegs EXCEPT !.failed = TRUE]

\* TxAfterStore with the register window reaching $A000 itself.
TxAfterStore_WideSelect(addr, val) ==
    IF addr < 24576 THEN TxRegs
    ELSE IF addr < 32768
    THEN [TxRegs EXCEPT !.prg_ram[BitAnd(addr, 8191)] = val]
    ELSE IF addr <= 40960
    THEN IF BitAnd(addr, 1) = 0
         THEN [TxRegs EXCEPT !.bank_select = val]
         ELSE TxBankData(TxBankUpdateSelect(bank_select), val)
    ELSE TxRegs

\* TxAfterStore with the PRG-RAM window starting at $5FFF.
TxAfterStore_RamBelow(addr, val) ==
    IF addr < 24575 THEN TxRegs
    ELSE IF addr < 32768
    THEN [TxRegs EXCEPT !.prg_ram[BitAnd(addr, 8191)] = val]
    ELSE IF addr < 40960
    THEN IF BitAnd(addr, 1) = 0
         THEN [TxRegs EXCEPT !.bank_select = val]
         ELSE TxBankData(TxBankUpdateSelect(bank_select), val)
    ELSE TxRegs

\* The state after TxRom::prg_storeb(addr, val).
TxAfterStore(addr, val) ==
    IF addr < 24576 THEN TxRegs                                  \* 0x6000
    ELSE IF addr < 32768                                         \* 0x8000
    THEN [TxRegs EXCEPT !.prg_ram[BitAnd(addr, 8191)] = val]
    ELSE IF addr < 40960                                         \* 0xa000
    THEN IF BitAnd(addr, 1) = 0
         THEN [TxRegs EXCEPT !.bank_select = val]
         ELSE TxBankData(TxBankUpdateSelect(bank_select), val)
    ELSE TxRegs

TxPrgStoreb(addr, val) ==
    /\ Running("TxRom")
    /\ LET r == TxAfterStore(addr, val) IN
        /\ bank_select' = r.bank_select /\ tx_prg_ram' = r.prg_ram
        /\ chr_banks_2k' = r.chr_banks_2k /\ chr_banks_1k' = r.chr_banks_1k
        /\ prg_banks' = r.prg_banks
        /\ fault' = IF r.failed THEN "prg_storeb: fail" ELSE fault
    /\ stored' = IF addr >= 24576 /\ addr < 32768
                 THEN [stored EXCEPT ![addr % 8192] = val] ELSE stored
    /\ Did("prg_storeb")
    /\ UNCHANGED <<rom, limit, chip, sx_vars, seq>>

\* self.rom.chr[addr]
TxChrLoadb(addr) ==
    /\ Running("TxRom")
    /\ Loaded(ChrAt(addr), "chr_loadb")
    /\ UNCHANGED <<rom, limit, chip, sx_vars, tx_vars, seq, stored>>

TxChrStoreb(addr, val) ==
    /\ Running("TxRom")
    /\ Did("chr_storeb")
    /\ UNCHANGED <<rom, limit, chip, fault, sx_vars, tx_vars, seq, stored>>

\* ------------------------------------------------------------ specification

Next ==
    \/ WithMapper
    \/ \E addr \in NromAddrs : NromPrgLoadb(addr)
    \/ \E addr \in NromAddrs, val \in NromVals : NromPrgStoreb(addr, val)
    \/ \E addr \in ChrAddrs : NromChrLoadb(addr)
    \/ \E addr \in ChrAddrs, val \in ChrVals : NromChrStoreb(addr, val)
    \/ \E addr \in SxAddrs : SxPrgLoadb(addr)
    \/ \E addr \in SxAddrs, val \in SxVals : SxPrgStoreb(addr, val)
    \/ \E addr \in ChrAddrs : SxChrLoadb(addr)
    \/ \E addr \in ChrAddrs, val \in ChrVals : SxChrStoreb(addr, val)
    \/ \E addr \in TxAddrs : TxPrgLoadb(addr)
    \/ \E w \in TxWrites : TxPrgStoreb(w[1], w[2])
    \/ \E addr \in ChrAddrs : TxChrLoadb(addr)
    \/ \E addr \in ChrAddrs, val \in ChrVals : TxChrStoreb(addr, val)

Spec == Init /\ [][Next]_vars

\* SxRom alone, through enough writes to commit both the control register and
\* the PRG bank register.
InitSxBanks ==
    /\ rom \in SxBankRoms
    /\ limit = MaxSxBankOps
    /\ NotBuilt

NextSxBanks ==
    \/ WithMapper
    \/ \E addr \in SxBankLoadAddrs : SxPrgLoadb(addr)
    \/ \E addr \in SxBankStoreAddrs, val \in SxBankVals : SxPrgStoreb(addr, val)

SpecSxBanks == InitSxBanks /\ [][NextSxBanks]_vars

\* ------------------------------------------------------------------ claims

\* Bit n of x.
Bit(x, n) == (x \div (2 ^ n)) % 2

\* b[1] | b[2]<<1 | ... for a sequence of bits.
RECURSIVE Encode(_)
Encode(b) == IF b = <<>> THEN 0 ELSE Head(b) + 2 * Encode(Tail(b))

SxRegNames == {"ctrl", "chr_bank_0", "chr_bank_1", "prg_bank"}
SxFour == <<ctrl, chr_bank_0, chr_bank_1, prg_bank>>

\* A step that shifted a bit into a sequence still short of five writes.
SxPartialStep == seq' # seq /\ Len(seq'.bits) \in 1..4

\* A step that made the fifth write of a sequence.
SxFifthStep == Len(seq.bits) = 4 /\ Len(seq'.bits) = 5

\* C1: five consecutive qualifying writes with low bits b0..b4, all inside
\* one register range, starting from write_count = 0 and accumulator = 0,
\* leave that range's register equal to b0 | b1<<1 | b2<<2 | b3<<3 | b4<<4
\* and write_count = 0, accumulator = 0; the first four change no register.
C1_CommitValue ==
    (chip = "SxRom" /\ Len(seq.bits) = 5 /\ seq.same)
        => /\ SxRegs[seq.first] = Encode(seq.bits)
           /\ write_count = 0
           /\ accum = 0
C1_FirstFourSilent == SxPartialStep => SxFour' = SxFour
C1_ShiftCommit == []C1_CommitValue /\ [][C1_FirstFourSilent]_vars

\* The end-to-end scenario: 0x01, 0, 0, 0, 0 written to $E000-$FFFF.
C1_Witness ==
    /\ chip = "SxRom" /\ op = "prg_storeb"
    /\ seq.bits = <<1, 0, 0, 0, 0>> /\ seq.same /\ seq.first = "prg_bank"
    /\ prg_bank = 1

\* C2: when the five writes go to different ranges, the register that
\* receives the 5-bit value is the one selected by the address of the fifth
\* write, wherever the first four went, and the other three registers keep
\* their values.
C2_DestValue ==
    (chip = "SxRom" /\ Len(seq.bits) = 5)
        => SxRegs[seq.dest] = Encode(seq.bits)
C2_OthersKept ==
    SxFifthStep => \A r \in SxRegNames \ {seq'.dest} : SxRegs'[r] = SxRegs[r]
C2_FifthWriteSelects == []C2_DestValue /\ [][C2_OthersKept]_vars

\* First write to $E000-$FFFF, fifth to $C000-$DFFF: chr_bank_1 receives 21.
C2_Witness ==
    /\ chip = "SxRom" /\ op = "prg_storeb"
    /\ seq.bits = <<1, 0, 1, 0, 1>> /\ ~seq.same
    /\ seq.first = "prg_bank" /\ seq.dest = "chr_bank_1"
    /\ chr_bank_1 = 21 /\ prg_bank = 0

\* C3: a write at an address >= $8000 with the high bit set, in any state,
\* sets write_count and the accumulator to 0, sets ctrl to ctrl | 0x0C (PRG
\* mode fix-last-bank, mirroring bits and CHR-mode bit unchanged), leaves
\* chr_bank_0, chr_bank_1 and prg_bank unchanged, and shifts in no bit.
C3_ResetEffect ==
    (chip = "SxRom" /\ op' = "prg_storeb" /\ nops' # nops) =>
        \A addr \in SxAddrs, val \in SxVals :
            (addr >= 32768 /\ val >= 128 /\ SxPrgStoreb(addr, val))
                => /\ write_count' = 0
                   /\ accum' = 0
                   /\ ctrl' = ctrl + 4 * (1 - Bit(ctrl, 2))
                                   + 8 * (1 - Bit(ctrl, 3))
                   /\ SxPrgRomMode(ctrl') = "FixLastBank"
                   /\ ctrl' % 4 = ctrl % 4
                   /\ Bit(ctrl', 4) = Bit(ctrl, 4)
                   /\ <<chr_bank_0, chr_bank_1, prg_bank>>'
                        = <<chr_bank_0, chr_bank_1, prg_bank>>
C3_Reset == [][C3_ResetEffect]_vars

\* ctrl = 0x11 committed by five writes, then a reset: ctrl = 0x1D.  (Six
\* operations ending in a prg_storeb that leaves no sequence in progress.)
C3_Witness ==
    /\ chip = "SxRom" /\ op = "prg_storeb" /\ nops = 6
    /\ seq = NoSeq /\ ctrl = 29 /\ write_count = 0 /\ accum = 0

\* C4: write_count is in 0..4 whenever an operation has returned; it is 0
\* after the step that commits a register (the fifth write of a sequence)
\* and after a reset write (no sequence in progress), and whenever a
\* register has just changed.
C4_Range ==
    chip = "SxRom" =>
        /\ write_count \in 0..4
        /\ Len(seq.bits) \in {0, 5} => write_count = 0
C4_ZeroOnCommit == SxFour' # SxFour => write_count' = 0
C4_WriteCount == []C4_Range /\ [][C4_ZeroOnCommit]_vars

\* A commit has just happened and the count is back to 0.
C4_Witness ==
    /\ chip = "SxRom" /\ op = "prg_storeb" /\ nops = 5
    /\ Len(seq.bits) = 5 /\ write_count = 0 /\ chr_bank_0 = 31

\* C5: with a PRG image of N 16 KB banks, every SxRom prg_loadb at an
\* address >= $8000 uses a bank index < N, i.e. a byte offset below the PRG
\* length, whatever has been committed to prg_bank.
C5_SxBankInRange ==
    chip = "SxRom" =>
        \A addr \in SxAddrs :
            addr >= 32768 =>
                /\ SxPrgBank(addr) < rom.prg_rom_size
                /\ SxPrgOffset(addr) < PrgLen

\* C6: with a PRG image of N 16 KB units, every TxRom prg_loadb at an address
\* >= $8000 uses an 8 KB bank index < 2N, i.e. a byte offset below the PRG
\* length, whatever has been written to the bank slots.
C6_TxBankInRange ==
    chip = "TxRom" =>
        \A addr \in TxAddrs :
            addr >= 32768 =>
                /\ TxPrgBank(addr) < 2 * rom.prg_rom_size
                /\ TxPrgOffset(addr) < PrgLen

\* C7: on every chip chr_loadb and chr_storeb complete without failure for
\* every 16-bit address, also at or beyond the end of CHR / CHR-RAM.
C7_ChrNeverFails ==
    fault \notin {"chr_loadb: index out of bounds",
                  "chr_storeb: index out of bounds"}

\* C8: prg_loadb and chr_loadb leave all chip-local state as it was, on
\* every chip and for every address; chip state changes only in a
\* prg_storeb or chr_storeb (after its construction).
C8_LoadStep == nops' # nops /\ op' \in {"prg_loadb", "chr_loadb"}
C8_LoadKeepsState == C8_LoadStep => UNCHANGED <<sx_vars, tx_vars>>
C8_OnlyStoresChange ==
    (chip # "none" /\ <<sx_vars, tx_vars>>' # <<sx_vars, tx_vars>>)
        => op' \in {"prg_storeb", "chr_storeb"}
C8_LoadsPure == [][C8_LoadKeepsState]_vars /\ [][C8_OnlyStoresChange]_vars

\* A prg_loadb has returned in the middle of a shift sequence.
C8_Witness ==
    /\ chip = "SxRom" /\ op = "prg_loadb" /\ fault = "none"
    /\ write_count = 3 /\ accum = 5 /\ seq.bits = <<1, 0, 1>>

\* C9: with_mapper hands out Nrom for mapper id 0, SxRom for id 1 in its
\* initial state (ctrl = 0x0C, other registers, accumulator and write_count
\* 0, both RAMs zero) and TxRom for id 4 (bank_select 0, all eight slots 0,
\* PRG-RAM zero); for any other id it fails with "unsupported mapper", builds
\* no chip and never invokes the callback.
C9_Built ==
    /\ rom.mapper = 0 => chip \in {"none", "Nrom"}
    /\ rom.mapper = 1 => chip \in {"none", "SxRom"}
    /\ rom.mapper = 4 => chip \in {"none", "TxRom"}
    /\ rom.mapper \notin {0, 1, 4} => chip = "none" /\ nops = 0 /\ op = "none"
    /\ fault = "unsupported mapper" => rom.mapper \notin {0, 1, 4}
    /\ (chip = "SxRom" /\ nops = 0) =>
            /\ ctrl = 12 /\ ctrl % 4 = 0 /\ Bit(ctrl, 4) = 0
            /\ SxPrgRomMode(ctrl) = "FixLastBank"
            /\ chr_bank_0 = 0 /\ chr_bank_1 = 0 /\ prg_bank = 0
            /\ accum = 0 /\ write_count = 0
            /\ \A c \in RamCells : sx_prg_ram[c] = 0 /\ chr_ram[c] = 0
    /\ (chip = "TxRom" /\ nops = 0) =>
            /\ bank_select = 0
            /\ \A i \in 0..1 : chr_banks_2k[i] = 0 /\ prg_banks[i] = 0
            /\ \A i \in 0..3 : chr_banks_1k[i] = 0
            /\ \A c \in RamCells : tx_prg_ram[c] = 0
C9_Dispatch ==
    (chip = "none" /\ fault = "none")
        => /\ rom.mapper = 0 => chip' = "Nrom" /\ fault' = "none"
           /\ rom.mapper = 1 => chip' = "SxRom" /\ fault' = "none"
           /\ rom.mapper = 4 => chip' = "TxRom" /\ fault' = "none"
           /\ rom.mapper \notin {0, 1, 4}
                => chip' = "none" /\ fault' = "unsupported mapper"
C9_Factory == []C9_Built /\ [][C9_Dispatch]_vars

\* Mapper id 99: the factory has failed and there is no chip.
C9_Witness ==
    rom.mapper = 99 /\ fault = "unsupported mapper" /\ chip = "none"

\* The bank slot numbered s by bank-update-select.
TxSlot(s) ==
    IF s <= 1 THEN chr_banks_2k[s]
    ELSE IF s <= 5 THEN chr_banks_1k[s - 2]
    ELSE prg_banks[s - 6]

\* C10: a prg_storeb of v at an odd address in $8000-$9FFF stores v into the
\* one slot chosen by the low 3 bits of bank_select and leaves bank_select,
\* PRG-RAM and the other seven slots unchanged (so with s in 0..5 prg_banks
\* is unchanged); at an even address it replaces bank_select with v and
\* changes no slot.
C10_TxStoreStep == chip = "TxRom" /\ op' = "prg_storeb" /\ nops' # nops
C10_DataWrite ==
    C10_TxStoreStep =>
        \A w \in TxWrites :
            (w[1] >= 32768 /\ w[1] <= 40959 /\ w[1] % 2 = 1
                /\ TxPrgStoreb(w[1], w[2]))
            => LET s == bank_select % 8 IN
                /\ TxSlot(s)' = w[2]
                /\ \A t \in (0..7) \ {s} : TxSlot(t)' = TxSlot(t)
                /\ s <= 5 => prg_banks' = prg_banks
                /\ bank_select' = bank_select
                /\ tx_prg_ram' = tx_prg_ram
                /\ fault' = fault
C10_SelectWrite ==
    C10_TxStoreStep =>
        \A w \in TxWrites :
            (w[1] >= 32768 /\ w[1] <= 40959 /\ w[1] % 2 = 0
                /\ TxPrgStoreb(w[1], w[2]))
            => /\ bank_select' = w[2]
               /\ \A t \in 0..7 : TxSlot(t)' = TxSlot(t)
               /\ tx_prg_ram' = tx_prg_ram
               /\ fault' = fault
C10_BankData == [][C10_DataWrite]_vars /\ [][C10_SelectWrite]_vars

\* bank_select = $C7 (slot 7), then a data write of 3: prg_banks[1] = 3 and
\* nothing else has changed.
C10_Witness ==
    /\ chip = "TxRom" /\ op = "prg_storeb" /\ nops = 2
    /\ bank_select = 199 /\ prg_banks[1] = 3 /\ prg_banks[0] = 0
    /\ \A t \in 0..5 : TxSlot(t) = 0

\* The two 8 KB windows whose roles bit 6 of bank_select swaps: the one fixed
\* to the second-to-last bank and the one switched through prg_banks[0].
TxFixedWindow(addr) ==
    IF BitAnd(bank_select, 64) = 0
    THEN addr >= 49152 /\ addr < 57344       \* $C000-$DFFF
    ELSE addr >= 32768 /\ addr < 40960       \* $8000-$9FFF
TxSwitchedWindow(addr) ==
    IF BitAnd(bank_select, 64) = 0
    THEN addr >= 32768 /\ addr < 40960
    ELSE addr >= 49152 /\ addr < 57344

\* The byte of 8 KB bank `bank` of the PRG image that addr selects.
TxBankByte(bank, addr) == PrgByte(bank * 8192 + (addr % 8192))

\* C11: on TxRom, in every reachable state, prg_loadb of an address in the
\* window that bit 6 of bank_select fixes ($C000-$DFFF when clear, $8000-$9FFF
\* when set) returns the PRG byte of the second-to-last 8 KB bank of the image
\* (there are 2 * prg_rom_size of them), whatever prg_banks holds, and
\* prg_loadb of an address in the other of the two windows returns the byte
\* of bank prg_banks[0].
C11_SecondLastFixed ==
    chip = "TxRom" =>
        \A addr \in TxAddrs :
            /\ TxFixedWindow(addr) =>
                  TxPrgRead(addr)
                      = <<TxBankByte(2 * rom.prg_rom_size - 2, addr)>>
            /\ TxSwitchedWindow(addr) =>
                  TxPrgRead(addr) = <<TxBankByte(prg_banks[0], addr)>>

\* C12: on TxRom, in every reachable state (after any sequence of stores),
\* prg_loadb of an address in $E000-$FFFF returns the PRG byte of the last
\* 8 KB bank of the image.
C12_LastFixed ==
    chip = "TxRom" =>
        \A addr \in TxAddrs :
            addr >= 57344 =>
                TxPrgRead(addr) = <<TxBankByte(2 * rom.prg_rom_size - 1, addr)>>

\* C13: on SxRom, for every CHR address a in $0000-$1FFF, chr_loadb(a) returns
\* the value of the most recent chr_storeb(a, v), or 0 if there was none,
\* whatever prg_storeb calls and stores to other CHR addresses came between;
\* and chr_storeb(a, v) changes cell a of CHR-RAM and nothing else of the
\* chip.
C13_ReadsLast ==
    chip = "SxRom" =>
        \A a \in ChrAddrs : a < 8192 => SxChrRead(a) = <<stored[a]>>
C13_StoreOneCell ==
    (chip = "SxRom" /\ op' = "chr_storeb" /\ nops' # nops) =>
        \A a \in ChrAddrs, v \in ChrVals :
            (a < 8192 /\ SxChrStoreb(a, v)) =>
                /\ chr_ram'[a] = v
                /\ \A c \in RamCells \ {a} : chr_ram'[c] = chr_ram[c]
                /\ UNCHANGED <<ctrl, chr_bank_0, chr_bank_1, prg_bank, accum,
                               write_count, sx_prg_ram>>
C13_ChrRoundTrip == []C13_ReadsLast /\ [][C13_StoreOneCell]_vars

\* A CHR load after a store of $AB to $1FFF and two shift-register writes.
C13_Witness ==
    /\ chip = "SxRom" /\ fault = "none" /\ op = "chr_loadb"
    /\ stored[8191] = 171 /\ stored[0] = 0 /\ write_count = 2

\* C14: on Nrom, prg_loadb(a) returns 0 for a < $8000; for a >= $8000 it
\* returns PRG[a mod 16384] when the image is 16 KB, so $8000+k and $C000+k
\* read the same byte, and PRG[a mod 32768] when it is larger, so that on a
\* 32 KB image $8000 reads byte 0 and $FFFF reads byte $7FFF; prg_storeb and
\* chr_storeb change nothing, so every load reads the same before and after.
C14_Expected(a) ==
    IF a < 32768 THEN 0
    ELSE IF rom.prg_rom_size = 1 THEN PrgByte(a % 16384)
    ELSE PrgByte(a % 32768)
C14_Reads ==
    chip = "Nrom" =>
        /\ \A a \in NromAddrs : NromPrgRead(a) = <<C14_Expected(a)>>
        /\ rom.prg_rom_size = 1 =>
              \A a \in NromAddrs :
                  (a >= 32768 /\ a < 49152) =>
                      NromPrgRead(a) = NromPrgRead(a + 16384)
        /\ rom.prg_rom_size = 2 =>
              /\ NromPrgRead(32768) = <<PrgByte(0)>>
              /\ NromPrgRead(65535) = <<PrgByte(32767)>>
C14_StoreStep ==
    chip = "Nrom" /\ nops' # nops /\ op' \in {"prg_storeb", "chr_storeb"}
C14_StoresNoOp ==
    C14_StoreStep =>
        /\ UNCHANGED <<rom, chip, fault, sx_vars, tx_vars>>
        /\ \A a \in NromAddrs : NromPrgRead(a)' = NromPrgRead(a)
C14_NromReads == []C14_Reads /\ [][C14_StoresNoOp]_vars

\* A PRG load from a 32 KB image as the second operation.
C14_Witness ==
    /\ chip = "Nrom" /\ rom.prg_rom_size = 2 /\ fault = "none"
    /\ op = "prg_loadb" /\ nops = 2

\* C15: on SxRom, prg_loadb returns 0 for addr < $8000.  For addr in
\* $8000-$BFFF the 16 KB bank is prg_bank with bit 0 cleared when ctrl bits 2-3
\* are 0 or 1, 0 when they are 2, prg_bank when they are 3; for addr in
\* $C000-$FFFF it is (prg_bank with bit 0 cleared) | 1 when they are 0 or 1,
\* prg_bank when they are 2, prg_rom_size - 1 when they are 3; the byte
\* returned is PRG[bank * 16384 + (addr & 0x3FFF)].  In the initial state and
\* right after a reset write, $C000-$FFFF reads the last 16 KB bank.
C15_Mode == (ctrl \div 4) % 4
C15_Bank(addr) ==
    IF addr < 49152
    THEN CASE C15_Mode \in {0, 1} -> prg_bank - (prg_bank % 2)
           [] C15_Mode = 2        -> 0
           [] C15_Mode = 3        -> prg_bank
    ELSE CASE C15_Mode \in {0, 1} -> prg_bank - (prg_bank % 2) + 1
           [] C15_Mode = 2        -> prg_bank
           [] C15_Mode = 3        -> rom.prg_rom_size - 1
C15_Reads ==
    \A addr \in SxAddrs :
        SxPrgRead(addr) =
            IF addr < 32768 THEN <<0>>
            ELSE PrgAt(C15_Bank(addr) * 16384 + (addr % 16384))
C15_LastBankAfterReset ==
    seq = NoSeq =>
        \A addr \in SxAddrs :
            addr >= 49152 =>
                SxPrgRead(addr) =
                    <<PrgByte((rom.prg_rom_size - 1) * 16384 + (addr % 16384))>>
C15_PrgLoadArithmetic ==
    chip = "SxRom" => C15_Reads /\ C15_LastBankAfterReset

\* A load in Switch32K mode (ctrl = 0 committed) with the odd bank 3 committed
\* to prg_bank.
C15_Witness ==
    /\ chip = "SxRom" /\ fault = "none" /\ op = "prg_loadb"
    /\ ctrl = 0 /\ prg_bank = 3 /\ rom.prg_rom_size = 32

\* C16: on TxRom, prg_storeb at an address below $6000 or at or above $A000,
\* with any value, and chr_storeb at any address, leave bank_select,
\* prg_banks, chr_banks_2k, chr_banks_1k and PRG-RAM unchanged, so every
\* prg_loadb and chr_loadb gives the same result after the write as before
\* (a load's result depends on the ROM image and these fields only, and the
\* task is as alive as it was).
C16_Unchanged ==
    /\ UNCHANGED <<rom, bank_select, prg_banks, chr_banks_2k, chr_banks_1k,
                   tx_prg_ram, fault>>
    /\ \A a \in TxAddrs : TxPrgBank(a)' = TxPrgBank(a)
C16_PrgStoreIgnored ==
    (chip = "TxRom" /\ op' = "prg_storeb" /\ nops' # nops) =>
        ((\E w \in TxWrites :
            (w[1] < 24576 \/ w[1] >= 40960) /\ TxPrgStoreb(w[1], w[2]))
         => C16_Unchanged)
C16_ChrStoreIgnored ==
    (chip = "TxRom" /\ op' = "chr_storeb" /\ nops' # nops) => C16_Unchanged
C16_IgnoredWrites ==
    [][C16_PrgStoreIgnored]_vars /\ [][C16_ChrStoreIgnored]_vars

\* A chr_storeb on a TxRom whose bank select and second PRG slot were written.
C16_Witness ==
    /\ chip = "TxRom" /\ op = "chr_storeb" /\ nops = 3
    /\ bank_select = 199 /\ prg_banks[1] = 3

\* C17: on TxRom, for every address a in $6000-$7FFF, prg_loadb(a) returns the
\* value of the most recent prg_storeb to an address in $6000-$7FFF with the
\* same addr & 0x1FFF, or 0 if there was none; a prg_storeb in $6000-$7FFF
\* changes that one PRG-RAM cell and no bank register; and no write outside
\* $6000-$7FFF changes a PRG-RAM cell.
C17_ReadsLast ==
    chip = "TxRom" =>
        \A a \in TxAddrs :
            (a >= 24576 /\ a < 32768) => TxPrgRead(a) = <<stored[a % 8192]>>
C17_InRam(addr) == addr >= 24576 /\ addr < 32768
C17_StoreStep == chip = "TxRom" /\ op' = "prg_storeb" /\ nops' # nops
C17_RamStore ==
    C17_StoreStep =>
        \A w \in TxWrites :
            (C17_InRam(w[1]) /\ TxPrgStoreb(w[1], w[2])) =>
                /\ tx_prg_ram'[w[1] % 8192] = w[2]
                /\ \A c \in RamCells \ {w[1] % 8192} :
                       tx_prg_ram'[c] = tx_prg_ram[c]
                /\ UNCHANGED <<bank_select, prg_banks, chr_banks_2k,
                               chr_banks_1k>>
C17_OutsideKeeps ==
    (C17_StoreStep /\ tx_prg_ram' # tx_prg_ram) =>
        \A w \in TxWrites : TxPrgStoreb(w[1], w[2]) => C17_InRam(w[1])
C17_OnlyStoresWrite ==
    (chip = "TxRom" /\ op' # "prg_storeb") => tx_prg_ram' = tx_prg_ram
C17_PrgRamRoundTrip ==
    /\ []C17_ReadsLast
    /\ [][C17_RamStore]_vars
    /\ [][C17_OutsideKeeps]_vars
    /\ [][C17_OnlyStoresWrite]_vars

\* A PRG load after stores of $FF to $7FFF and 3 to $6000 and a bank-select
\* write.
C17_Witness ==
    /\ chip = "TxRom" /\ fault = "none" /\ op = "prg_loadb"
    /\ stored[8191] = 255 /\ stored[0] = 3 /\ bank_select = 70

\* C18: in no reachable state does TxRom's bank-data dispatch see a
\* bank-update-select outside 0..7, nor does SxCtrl's mirroring or PRG-mode
\* decode see a value outside 0..3: the fail!() branches of
\* TxRom::prg_storeb, SxCtrl::mirroring and SxCtrl::prg_rom_mode are never
\* taken.
C18_NoFailBranch ==
    /\ fault # "prg_storeb: fail"
    /\ chip = "TxRom" => TxBankUpdateSelect(bank_select) \in 0..7
    /\ chip = "SxRom" =>
          /\ SxMirroring(ctrl) # "fail"
          /\ SxPrgRomMode(ctrl) # "fail"

\* A bank-data write dispatched with every bit of bank_select set.
C18_Witness ==
    /\ chip = "TxRom" /\ fault = "none" /\ op = "prg_storeb"
    /\ bank_select = 255 /\ prg_banks[1] = 3

\* C19: on SxRom, in every reachable state the accumulator has no bit set at
\* position write_count or above (accum < 2^write_count, so accum = 0 when
\* write_count = 0), and so every committed value, and at all times each of
\* ctrl, chr_bank_0, chr_bank_1 and prg_bank, lies in 0..31.
C19_AccumBound ==
    /\ accum < 2 ^ write_count
    /\ write_count = 0 => accum = 0
C19_RegistersFiveBit == \A r \in SxRegNames : SxRegs[r] \in 0..31
C19_Accumulator ==
    chip = "SxRom" => C19_AccumBound /\ C19_RegistersFiveBit

\* Four writes with low bit 1 shifted in, none committed yet.
C19_Witness ==
    /\ chip = "SxRom" /\ write_count = 4 /\ accum = 15

\* C20: on SxRom, prg_storeb at an address below $8000 (with any value, the
\* reset flag included), chr_storeb, prg_loadb and chr_loadb leave
\* write_count, the accumulator and the four registers unchanged, so the
\* shift state is that of the qualifying writes alone and five of them commit
\* as five back-to-back writes would, whatever other operations came between;
\* and prg_loadb at an address below $8000 returns 0 in every state.
C20_OtherStep ==
    /\ chip = "SxRom" /\ nops' # nops
    /\ \/ op' \in {"chr_storeb", "prg_loadb", "chr_loadb"}
       \/ /\ op' = "prg_storeb"
          /\ \E addr \in SxAddrs, val \in SxVals :
                 addr < 32768 /\ SxPrgStoreb(addr, val)
C20_Undisturbed ==
    C20_OtherStep =>
        UNCHANGED <<ctrl, chr_bank_0, chr_bank_1, prg_bank, accum, write_count>>
C20_QualifyingOnly ==
    chip = "SxRom" =>
        /\ write_count = Len(seq.bits) % 5
        /\ accum = IF Len(seq.bits) \in 1..4 THEN Encode(seq.bits) ELSE 0
        /\ Len(seq.bits) = 5 => SxRegs[seq.dest] = Encode(seq.bits)
        /\ \A addr \in SxAddrs : addr < 32768 => SxPrgRead(addr) = <<0>>
C20_ShiftUndisturbed == []C20_QualifyingOnly /\ [][C20_Undisturbed]_vars

\* A chr_storeb in the middle of a shift sequence: three bits (1, 0, 1) in.
C20_Witness ==
    /\ chip = "SxRom" /\ op = "chr_storeb" /\ nops = 4
    /\ write_count = 3 /\ accum = 5 /\ seq.bits = <<1, 0, 1>>

====
